---- MODULE Spec2Model ----
(***************************************************************************)
(* A model of logilab.astng nodes.py (src/nodes.py): the inference context *)
(* (InferenceContext.push / pop / clone), multi-candidate resolution       *)
(* (_infer_stmts), Instance.getattr and NodeNG.nodes_of_class.             *)
(*                                                                         *)
(* Python objects are modelled as a heap: a list object is an index into   *)
(* `paths`, so that two contexts holding the same list are two records     *)
(* with the same index.                                                    *)
(***************************************************************************)
EXTENDS Integers, Sequences, FiniteSets, TLC

VARIABLES
    paths,   \* heap of list objects used as InferenceContext.path
    ctxs,    \* the InferenceContext objects created so far
    origin,  \* history: origin[c] = the context c was cloned from, 0 if none
    log,     \* history: log[p] = the successful pushes on list p not yet popped
    ev,      \* the last InferenceContext operation, with what it signalled
    st,      \* one run of _infer_stmts over a candidate sequence
    cy,      \* one run of the inference engine over a binding graph
    at,      \* one Instance proxy, its class's tables and the last getattr
    tr,      \* one tree and the last nodes_of_class call on it
    sb,      \* one block of statements and the last sibling query on it
    nr,      \* one candidate list and the last nearest() call on it
    ln,      \* one tree with line numbers, its caches, the last call on it
    br       \* one compound statement and the last block_range call on it

vars == <<paths, ctxs, origin, log, ev, st, cy, at, tr, sb, nr, ln, br>>

\* ------------------------------------------------------------------ bounds

MaxCtx == 2       \* InferenceContext objects per run
MaxPath == 2      \* longest path a run builds
MaxCands == 3     \* candidates handed to one _infer_stmts call
MaxBinds == 3     \* binding statements of a module
MaxNodes == 5     \* nodes of a tree
MaxBlock == 3     \* statements of a block
MaxNest == 2      \* non-statement nodes nested under one statement
MaxNear == 3      \* candidates handed to one nearest() call
MaxLine == 3      \* highest line number of a source file
MaxTree == 3      \* nodes of a tree with line numbers
MaxBranches == 2  \* branches after the first of an if, handlers of a try

\* ------------------------------------------------------------ Python values

None == "None"
YES == "YES"
NoPath == 0       \* path=None, as a reference to no list object
NoLine == 0       \* lineno=None; as None does, it compares below every line

Nodes == {"n1", "n2"}
StartNodes == {"n0"}

Last(s) == s[Len(s)]
Front(s) == SubSeq(s, 1, Len(s) - 1)
InSeq(x, s) == \E i \in 1..Len(s) : s[i] = x

\* ------------------------------------------------------- InferenceContext

\* InferenceContext.__init__(node, path): a fresh list unless one is given.
InferenceContext(ps, node, path) ==
    IF path = NoPath
    THEN [ctx   |-> [startingfrom |-> node, path |-> Len(ps) + 1,
                     lookupname |-> None, callcontext |-> None,
                     boundnode |-> None],
          paths |-> Append(ps, <<>>)]
    ELSE [ctx   |-> [startingfrom |-> node, path |-> path,
                     lookupname |-> None, callcontext |-> None,
                     boundnode |-> None],
          paths |-> ps]

\* A push that never looks the pair up.
push_nocheck(ps, c, node) ==
    [raised |-> None,
     paths  |-> [ps EXCEPT ![c.path] = Append(@, <<node, c.lookupname>>)]]

\* InferenceContext.push(node)
push(ps, c, node) ==
    LET name == c.lookupname IN
    IF InSeq(<<node, name>>, ps[c.path])
    THEN [raised |-> "StopIteration", paths |-> ps]
    ELSE [raised |-> None,
          paths  |-> [ps EXCEPT ![c.path] = Append(@, <<node, name>>)]]

\* A pop that takes the oldest pair.
pop_first(ps, c) ==
    IF ps[c.path] = <<>>
    THEN [raised |-> "IndexError", ret |-> None, paths |-> ps]
    ELSE [raised |-> None, ret |-> Head(ps[c.path]),
          paths  |-> [ps EXCEPT ![c.path] = Tail(@)]]

\* InferenceContext.pop(): list.pop() of the path.
pop(ps, c) ==
    IF ps[c.path] = <<>>
    THEN [raised |-> "IndexError", ret |-> None, paths |-> ps]
    ELSE [raised |-> None, ret |-> Last(ps[c.path]),
          paths  |-> [ps EXCEPT ![c.path] = Front(@)]]

\* A clone that copies the list.
clone_copy(ps, c) ==
    [ctx   |-> [startingfrom |-> c.startingfrom, path |-> Len(ps) + 1,
                lookupname |-> None, callcontext |-> c.callcontext,
                boundnode |-> c.boundnode],
     paths |-> Append(ps, ps[c.path])]

\* InferenceContext.clone(): the clone is built on the same list object.
clone(ps, c) ==
    LET r == InferenceContext(ps, c.startingfrom, c.path) IN
    [ctx   |-> [r.ctx EXCEPT !.callcontext = c.callcontext,
                             !.boundnode = c.boundnode],
     paths |-> r.paths]

\* ----------------------------------------------- operations on contexts

NoEv == [op |-> "none", ctx |-> 0, node |-> None, name |-> None,
         raised |-> None, ret |-> None, by |-> 0, pre |-> <<>>,
         prelog |-> <<>>]

otherVarsCtx == <<st, cy, at, tr, sb, nr, ln, br>>

\* The field assignments a caller makes on a context it holds.
Settings == {[lookupname |-> None, callcontext |-> None, boundnode |-> None],
             [lookupname |-> "x", callcontext |-> "cc", boundnode |-> None],
             [lookupname |-> "x", callcontext |-> None, boundnode |-> "bn"]}

\* context.lookupname = ...; context.callcontext = ...; context.boundnode = ...
CtxSet(c, s) ==
    /\ c \in 1..Len(ctxs)
    /\ ctxs' = [ctxs EXCEPT ![c].lookupname = s.lookupname,
                            ![c].callcontext = s.callcontext,
                            ![c].boundnode = s.boundnode]
    /\ ctxs' # ctxs
    /\ ev' = [NoEv EXCEPT !.op = "set", !.ctx = c, !.name = s.lookupname,
                          !.pre = paths, !.prelog = log]
    /\ UNCHANGED <<paths, origin, log>>
    /\ UNCHANGED otherVarsCtx

CtxPush(c, node) ==
    /\ c \in 1..Len(ctxs)
    /\ \/ Len(paths[ctxs[c].path]) < MaxPath
       \/ InSeq(<<node, ctxs[c].lookupname>>, paths[ctxs[c].path])
    /\ LET r == push(paths, ctxs[c], node) IN
       /\ paths' = r.paths
       /\ log' = IF r.raised = None
                 THEN [log EXCEPT ![ctxs[c].path] =
                         Append(@, [by |-> c, pair |-> <<node, ctxs[c].lookupname>>])]
                 ELSE log
       /\ ev' = [NoEv EXCEPT !.op = "push", !.ctx = c, !.node = node,
                             !.name = ctxs[c].lookupname,
                             !.raised = r.raised, !.pre = paths,
                             !.prelog = log]
    /\ UNCHANGED <<ctxs, origin>>
    /\ UNCHANGED otherVarsCtx

CtxPop(c) ==
    /\ c \in 1..Len(ctxs)
    /\ LET r == pop(paths, ctxs[c])
           l == log[ctxs[c].path] IN
       /\ paths' = r.paths
       /\ log' = IF r.raised = None /\ l # <<>>
                 THEN [log EXCEPT ![ctxs[c].path] = Front(@)] ELSE log
       /\ ev' = [NoEv EXCEPT !.op = "pop", !.ctx = c, !.raised = r.raised,
                             !.ret = r.ret, !.pre = paths, !.prelog = log,
                             !.by = IF r.raised = None /\ l # <<>>
                                    THEN Last(l).by ELSE 0]
    /\ UNCHANGED <<ctxs, origin>>
    /\ UNCHANGED otherVarsCtx

CtxClone(c) ==
    /\ c \in 1..Len(ctxs)
    /\ Len(ctxs) < MaxCtx
    /\ LET r == clone(paths, ctxs[c]) IN
       /\ paths' = r.paths
       /\ ctxs' = Append(ctxs, r.ctx)
       /\ origin' = Append(origin, c)
       /\ log' = IF Len(r.paths) > Len(paths)
                 THEN Append(log, log[ctxs[c].path]) ELSE log
       /\ ev' = [NoEv EXCEPT !.op = "clone", !.ctx = c, !.pre = paths,
                             !.prelog = log]
    /\ UNCHANGED otherVarsCtx

InitOther ==
    /\ st = 0 /\ cy = 0 /\ at = 0 /\ tr = 0
    /\ sb = 0 /\ nr = 0 /\ ln = 0 /\ br = 0

\* InferenceContext(node): one context, built on a fresh empty list.
InitCtx ==
    /\ \E n \in StartNodes :
          LET r == InferenceContext(<<>>, n, NoPath) IN
          /\ paths = r.paths
          /\ ctxs = <<r.ctx>>
    /\ origin = <<0>>
    /\ log = <<<<>>>>
    /\ ev = NoEv
    /\ InitOther

NextCtx ==
    \/ \E c \in 1..MaxCtx, s \in Settings : CtxSet(c, s)
    \/ \E c \in 1..MaxCtx, n \in Nodes : CtxPush(c, n)
    \/ \E c \in 1..MaxCtx : CtxPop(c)
    \/ \E c \in 1..MaxCtx : CtxClone(c)

SpecCtx == InitCtx /\ [][NextCtx]_vars

\* ------------------------------------------------------------ _infer_stmts

PyTrue == "True"
PyFalse == "False"

\* The classes a NotFoundError is an instance of.  Instance.igetattr
\* catches NotFoundError to raise InferenceError in its place, which it
\* would not need to do if a NotFoundError were an InferenceError already.
NotFoundErrorBases == {"NotFoundError"}

\* The classes an exception is an instance of.  _infer_stmts has its clause
\* for UnresolvableName before the one for InferenceError: an
\* UnresolvableName is an InferenceError.
ExceptionBases(exc) ==
    CASE exc = "UnresolvableName" -> {"UnresolvableName", "InferenceError"}
      [] exc = "InferenceError"   -> {"InferenceError"}
      [] exc = "NotFoundError"    -> NotFoundErrorBases

IsInstance(exc, cls) == cls \in ExceptionBases(exc)

INFER_NEED_NAME_STMTS == {"From", "Import", "Global", "TryExcept"}

\* NodeNG._infer_name(frame, name)
_infer_name(self, frame, name) ==
    IF \/ self.kind \in INFER_NEED_NAME_STMTS
       \/ (self.kind \in {"Function", "Lambda"} /\ self.id = frame)
    THEN name ELSE None

\* The candidates of a run. A candidate is YES or a node; what the node's
\* infer(context) does is given with it: the values it yields, in order,
\* and the exception that ends it (None: it returns).
Stmt(id, kind, yields, raises) ==
    [id |-> id, kind |-> kind, yields |-> yields, raises |-> raises]

Candidates ==
    {Stmt("a0", "AssName", <<>>, None),
     Stmt("a1", "AssName", <<"1">>, None),
     Stmt("a2", "AssName", <<"2">>, None),
     Stmt("a3", "AssName", <<"3">>, None),
     Stmt("a12", "AssName", <<"1", "2">>, None),
     Stmt("u0", "From", <<>>, "UnresolvableName"),
     Stmt("u1", "From", <<"1">>, "UnresolvableName"),
     Stmt("i0", "From", <<>>, "InferenceError"),
     Stmt("i1", "From", <<"1">>, "InferenceError"),
     Stmt("n0", "From", <<>>, "NotFoundError"),
     Stmt("n1", "From", <<"1">>, "NotFoundError"),
     Stmt("f", "Function", <<"f">>, None),
     Stmt("g", "Function", <<"g">>, None),
     Stmt(YES, YES, <<>>, None)}

IsYES(stmt) == stmt.id = YES

\* The except clauses of the loop body, in the order written.
Handler_drop(exc) ==
    IF IsInstance(exc, "UnresolvableName") THEN "continue"
    ELSE IF IsInstance(exc, "InferenceError") THEN "continue"
    ELSE "propagate"

Handler(exc) ==
    IF IsInstance(exc, "UnresolvableName") THEN "continue"
    ELSE IF IsInstance(exc, "InferenceError") THEN "yield YES"
    ELSE "propagate"

\* if not infered: nodes and YES are true objects.
Truth(v) == v \notin {PyFalse, None}

\* A yield: the value goes to the consumer and the generator is suspended
\* at the line of the yield.
Yield(s, v, line) ==
    [s EXCEPT !.out = Append(@, v),
              !.seg[s.i] = Append(@, v),
              !.pc = line]

\* if not infered: raise InferenceError(str(stmt))
Finish(s) ==
    IF ~Truth(s.infered)
    THEN [s EXCEPT !.pc = "done", !.status = "InferenceError"]
    ELSE [s EXCEPT !.pc = "done", !.status = "returned"]

\* What the statement after a yield does to the flag.
Mark_y891_missing(s) == IF s.pc = "y891" THEN s ELSE [s EXCEPT !.infered = PyTrue]

Mark(s) == [s EXCEPT !.infered = PyTrue]

\* The next item of stmt.infer(context), once `done` of them were taken.
NextItem_skip(stmt, done) ==
    IF done + 1 < Len(stmt.yields) THEN <<stmt.yields[done + 2]>>
    ELSE <<>>

NextItem(stmt, done) ==
    IF done < Len(stmt.yields) THEN <<stmt.yields[done + 1]>>
    ELSE <<>>

RECURSIVE Loop(_), Iter(_)

\* for stmt in stmts: ... up to the next yield or the end of the generator
Loop(s) ==
    IF s.i = Len(s.stmts)
    THEN Finish(s)
    ELSE LET k == s.i + 1
             stmt == s.stmts[k]
             t == [s EXCEPT !.i = k, !.pos = 0, !.stmt = stmt.id,
                            !.seg = Append(@, <<>>)] IN
         IF IsYES(stmt)
         THEN Yield(t, YES, "y880")
         ELSE Iter([t EXCEPT !.lookupname = _infer_name(stmt, s.frame, s.name)])

\* for infered in stmt.infer(context): ..., with the except clauses
Iter(s) ==
    LET stmt == s.stmts[s.i]
        item == NextItem(stmt, s.pos) IN
    IF item # <<>>
    THEN Yield([s EXCEPT !.pos = @ + 1, !.infered = item[1]], item[1], "y886")
    ELSE IF stmt.raises = None
    THEN Loop(s)
    ELSE CASE Handler(stmt.raises) = "continue"  -> Loop(s)
           [] Handler(stmt.raises) = "yield YES" -> Yield(s, YES, "y891")
           [] Handler(stmt.raises) = "propagate" ->
                 [s EXCEPT !.pc = "done", !.status = stmt.raises]

\* The generator's state before its first next().
NewRun(stmts, frame) ==
    [stmts |-> stmts, frame |-> frame, pc |-> "start", i |-> 0, pos |-> 0,
     stmt |-> None, infered |-> PyFalse, name |-> None, lookupname |-> None,
     out |-> <<>>, seg |-> <<>>, status |-> "running"]

otherVarsStmts == <<origin, log, ev, cy, at, tr, sb, nr, ln, br>>

\* The first next(): name and the context of the run, then the loop.  The
\* loop writes context.lookupname, on the run's own context, for every
\* candidate that is not YES; s.lookupname is the value last written.
StmtsStart ==
    /\ st.pc = "start"
    /\ IF ctxs # <<>>
       THEN LET r == clone(paths, ctxs[1])
                s == Loop([st EXCEPT !.name = ctxs[1].lookupname]) IN
            /\ paths' = r.paths
            /\ ctxs' = Append(ctxs, [r.ctx EXCEPT !.lookupname = s.lookupname])
            /\ st' = s
       ELSE LET r == InferenceContext(paths, None, NoPath)
                s == Loop([st EXCEPT !.name = None]) IN
            /\ paths' = r.paths
            /\ ctxs' = Append(ctxs, [r.ctx EXCEPT !.lookupname = s.lookupname])
            /\ st' = s
    /\ UNCHANGED otherVarsStmts

\* A later next(): the statement after the yield, then on to the next
\* candidate, whose lookup name is written on the run's context.
StmtsResume ==
    /\ st.pc \in {"y880", "y886", "y891"}
    /\ LET s == IF st.pc = "y886" THEN Iter(Mark(st)) ELSE Loop(Mark(st)) IN
       /\ st' = s
       /\ ctxs' = [ctxs EXCEPT ![Len(ctxs)].lookupname = s.lookupname]
    /\ UNCHANGED paths
    /\ UNCHANGED otherVarsStmts

StmtSeqs == UNION {[1..n -> Candidates] : n \in 0..MaxCands}

\* A call _infer_stmts(stmts, context, frame): context is None or a context
\* resolving "x" with one pair on its path.
InitStmts ==
    /\ \E stmts \in StmtSeqs : st = NewRun(stmts, "f")
    /\ \/ paths = <<>> /\ ctxs = <<>>
       \/ /\ paths = << <<<<"n1", None>>>> >>
          /\ ctxs = <<[InferenceContext(<<>>, "n0", NoPath).ctx
                         EXCEPT !.lookupname = "x"]>>
    /\ origin = <<>> /\ log = <<>> /\ ev = NoEv
    /\ cy = 0 /\ at = 0 /\ tr = 0
    /\ sb = 0 /\ nr = 0 /\ ln = 0 /\ br = 0

NextStmts == StmtsStart \/ StmtsResume

SpecStmts == InitStmts /\ [][NextStmts]_vars

\* ------------------------------------------- inference over a binding graph
\* Module-level assignments `target = rhs`, rhs a name or a constant, and
\* the inference of one name. A binding statement's infer pushes
\* (statement, lookup name) on the context before it recurses into the
\* right-hand side and pops it when it is done; a name is resolved through
\* _infer_stmts over the statements binding it.

BoundNames == {"a", "b"}
FreeNames == {"c"}
Consts == {"1"}

Binds == [target : BoundNames, rhs : BoundNames \cup FreeNames \cup Consts]
BindSeqs == UNION {[1..n -> Binds] : n \in 1..MaxBinds}

\* No chain of calls is deeper than this: a statement is on the path once.
MaxDepth == 2 * MaxBinds + 3

RECURSIVE LocalsUpTo(_, _, _)
LocalsUpTo(binds, name, n) ==
    IF n = 0 THEN <<>>
    ELSE IF binds[n].target = name
    THEN Append(LocalsUpTo(binds, name, n - 1), n)
    ELSE LocalsUpTo(binds, name, n - 1)
\* The statements binding `name`, in source order.
Locals(binds, name) == LocalsUpTo(binds, name, Len(binds))

AssNode(k) == [id |-> k, kind |-> "AssName"]

StmtsFrame(cands, name, context) ==
    [type |-> "stmts", cands |-> cands, i |-> 0, infered |-> PyFalse,
     name |-> name, context |-> context, stmt |-> 0, pc |-> "run"]
InferFrame(k, context) ==
    [type |-> "infer", cands |-> <<>>, i |-> 0, infered |-> PyFalse,
     name |-> None, context |-> context, stmt |-> k, pc |-> "run"]

\* Name.infer(context): clone, set the lookup name, look the name up, and
\* hand the statements to _infer_stmts, which clones the context again.
InferName(ps, context, n, cands) ==
    LET c2 == [clone(ps, context).ctx EXCEPT !.lookupname = n]
        c3 == clone(ps, c2).ctx IN
    StmtsFrame(cands, c2.lookupname, c3)

\* A value yielded by the innermost generator reaches the consumer through
\* every generator of the chain. Each _infer_stmts on the way has the value
\* as its loop variable `infered` and is suspended at its yield on line 886,
\* each statement's infer at its own yield.
Forwarded(stack, v) ==
    [k \in DOMAIN stack |->
        IF stack[k].type = "stmts"
        THEN [stack[k] EXCEPT !.infered = v, !.pc = "y886"]
        ELSE [stack[k] EXCEPT !.pc = "yield"]]

\* The consumer's next() resumes the chain from the outermost generator
\* in: each _infer_stmts goes on with the statement after its yield,
\* infered = True, and asks the generator below it for its next value.
Resumed(stack) ==
    [k \in DOMAIN stack |->
        IF stack[k].type = "stmts"
        THEN [Mark(stack[k]) EXCEPT !.pc = "run"]
        ELSE [stack[k] EXCEPT !.pc = "run"]]

CyTop == cy.stack[Len(cy.stack)]
CyCand == CyTop.cands[CyTop.i + 1]
\* context.lookupname = stmt._infer_name(frame, name)
CyContext == [CyTop.context EXCEPT
                 !.lookupname = _infer_name(AssNode(CyCand), None, CyTop.name)]
CyAtCandidate ==
    /\ cy.pc = "run"
    /\ CyTop.type = "stmts"
    /\ CyTop.i < Len(CyTop.cands)
CyAtEnd ==
    /\ cy.pc = "run"
    /\ CyTop.type = "stmts"
    /\ CyTop.i = Len(CyTop.cands)
\* The loop of the top frame goes on to its next candidate.
Continue(stack) == [stack EXCEPT ![Len(stack)].i = @ + 1,
                                 ![Len(stack)].context = CyContext]

otherVarsCyc == <<ctxs, origin, log, ev, st, at, tr, sb, nr, ln, br>>

\* The query: infer the name cy.query in a context of its own.
CycStart ==
    /\ cy.pc = "start"
    /\ LET r == InferenceContext(<<>>, None, NoPath)
           cands == Locals(cy.binds, cy.query) IN
       /\ paths' = r.paths
       /\ IF cands = <<>>
          THEN cy' = [cy EXCEPT !.pc = "done", !.status = "UnresolvableName"]
          ELSE cy' = [cy EXCEPT !.pc = "run",
                        !.stack = <<InferName(r.paths, r.ctx, cy.query, cands)>>]
    /\ UNCHANGED otherVarsCyc

\* The candidate's pair is on the path already: its infer yields nothing.
CycVisited ==
    /\ CyAtCandidate
    /\ push(paths, CyContext, CyCand).raised = "StopIteration"
    /\ paths' = push(paths, CyContext, CyCand).paths
    /\ cy' = [cy EXCEPT !.stack = Continue(@), !.hits = TRUE]
    /\ UNCHANGED otherVarsCyc

\* The candidate binds a constant: its infer pushes the pair and yields
\* the constant. The consumer holds the value; the statement's infer is
\* suspended with its pair on the path.
CycConst ==
    /\ CyAtCandidate
    /\ push(paths, CyContext, CyCand).raised = None
    /\ cy.binds[CyCand].rhs \in Consts
    /\ paths' = push(paths, CyContext, CyCand).paths
    /\ cy' = [cy EXCEPT !.pc = "held",
                        !.stack = Forwarded(
                            [@ EXCEPT ![Len(@)].context = CyContext]
                            \o <<InferFrame(CyCand, CyContext)>>,
                            cy.binds[CyCand].rhs),
                        !.out = Append(@, cy.binds[CyCand].rhs)]
    /\ UNCHANGED otherVarsCyc

\* The candidate binds a name nothing binds: push, UnresolvableName, pop;
\* the loop's except clause decides.
CycUnbound ==
    /\ CyAtCandidate
    /\ push(paths, CyContext, CyCand).raised = None
    /\ cy.binds[CyCand].rhs \in FreeNames
    /\ Handler("UnresolvableName") = "continue"
    /\ paths' = pop(push(paths, CyContext, CyCand).paths, CyContext).paths
    /\ cy' = [cy EXCEPT !.stack = Continue(@)]
    /\ UNCHANGED otherVarsCyc

\* The candidate binds a bound name: push, and resolve that name.
CycDescend ==
    /\ CyAtCandidate
    /\ Len(cy.stack) + 2 <= MaxDepth
    /\ push(paths, CyContext, CyCand).raised = None
    /\ cy.binds[CyCand].rhs \in BoundNames
    /\ paths' = push(paths, CyContext, CyCand).paths
    /\ LET n == cy.binds[CyCand].rhs IN
       cy' = [cy EXCEPT !.stack =
                 [@ EXCEPT ![Len(@)].context = CyContext]
                 \o <<InferFrame(CyCand, CyContext),
                      InferName(paths', CyContext, n, Locals(cy.binds, n))>>]
    /\ UNCHANGED otherVarsCyc

\* The loop of the top frame is over with success marked: _infer_stmts
\* returns, the statement's infer pops its pair and returns.
CycReturn ==
    /\ CyAtEnd
    /\ Finish([pc |-> "run", status |-> "running",
               infered |-> CyTop.infered]).status = "returned"
    /\ IF Len(cy.stack) = 1
       THEN /\ cy' = [cy EXCEPT !.pc = "done", !.status = "returned",
                                !.stack = <<>>]
            /\ UNCHANGED paths
       ELSE LET below == SubSeq(cy.stack, 1, Len(cy.stack) - 2) IN
            /\ paths' = pop(paths, cy.stack[Len(cy.stack) - 1].context).paths
            /\ cy' = [cy EXCEPT !.stack = [below EXCEPT ![Len(below)].i = @ + 1]]
    /\ UNCHANGED otherVarsCyc

\* The loop of the top frame is over and nothing was yielded: _infer_stmts
\* raises InferenceError, the statement's infer pops its pair and lets the
\* error through, and the except clause of the loop above decides. Its
\* yield YES on line 891 leaves that loop suspended there, the flag as it
\* was, and the value goes up through the generators above.
CycRaise ==
    /\ CyAtEnd
    /\ Finish([pc |-> "run", status |-> "running",
               infered |-> CyTop.infered]).status = "InferenceError"
    /\ IF Len(cy.stack) = 1
       THEN /\ cy' = [cy EXCEPT !.pc = "done", !.status = "InferenceError",
                                !.stack = <<>>]
            /\ UNCHANGED paths
       ELSE LET below == SubSeq(cy.stack, 1, Len(cy.stack) - 2)
                next == [below EXCEPT ![Len(below)].i = @ + 1] IN
            /\ paths' = pop(paths, cy.stack[Len(cy.stack) - 1].context).paths
            /\ CASE Handler("InferenceError") = "yield YES" ->
                      cy' = [cy EXCEPT !.pc = "held",
                                       !.stack = Forwarded(Front(below), YES)
                                           \o <<[Last(below) EXCEPT
                                                    !.pc = "y891"]>>,
                                       !.out = Append(@, YES)]
                 [] Handler("InferenceError") = "continue" ->
                      cy' = [cy EXCEPT !.stack = next]
                 [] Handler("InferenceError") = "propagate" ->
                      cy' = [cy EXCEPT !.pc = "done", !.stack = <<>>,
                                       !.status = "InferenceError"]
    /\ UNCHANGED otherVarsCyc

\* The consumer asks for the next value. Every _infer_stmts of the chain
\* marks success; the generator that yielded goes on: a statement's infer
\* pops its pair and returns, a loop suspended on line 891 goes to line
\* 892, and the loop it leaves or is in moves to its next candidate.
CycNext ==
    /\ cy.pc = "held"
    /\ LET s == Resumed(cy.stack) IN
       IF CyTop.type = "infer"
       THEN LET below == Front(s) IN
            /\ paths' = pop(paths, CyTop.context).paths
            /\ cy' = [cy EXCEPT !.pc = "run",
                       !.stack = [below EXCEPT ![Len(below)].i = @ + 1]]
       ELSE /\ UNCHANGED paths
            /\ cy' = [cy EXCEPT !.pc = "run",
                                !.stack = [s EXCEPT ![Len(s)].i = @ + 1]]
    /\ UNCHANGED otherVarsCyc

InitCycle ==
    /\ \E binds \in BindSeqs, q \in BoundNames :
          cy = [binds |-> binds, query |-> q, pc |-> "start", stack |-> <<>>,
                out |-> <<>>, status |-> "running", hits |-> FALSE]
    /\ paths = <<>> /\ ctxs = <<>> /\ origin = <<>> /\ log = <<>>
    /\ ev = NoEv /\ st = 0 /\ at = 0 /\ tr = 0
    /\ sb = 0 /\ nr = 0 /\ ln = 0 /\ br = 0

NextCycle ==
    \/ CycStart
    \/ CycVisited
    \/ CycConst
    \/ CycUnbound
    \/ CycDescend
    \/ CycReturn
    \/ CycRaise
    \/ CycNext

\* The engine is one synchronous computation: it takes its next step. The
\* consumer is one that asks for every value, as list(node.infer()) does;
\* while it holds a value the generators stay suspended.
SpecCycle == InitCycle /\ [][NextCycle]_vars /\ WF_vars(NextCycle)

\* -------------------------------------------------------- Instance.getattr
\* An Instance proxy of a class with two tables: the attributes set on its
\* instances (what Class.instance_attr answers from) and the attributes of
\* the class itself (what Class.getattr answers from).

AttrNames == {"__name__", "__class__", "x"}
TheClass == "Class"

InstanceValue(name) == [of |-> "instance", name |-> name]
ClassValue(name) == [of |-> "class", name |-> name]

\* Class.instance_attr(name, context): the values, or NotFoundError.
instance_attr(cls, name) ==
    IF name \in cls.instance_attrs
    THEN [raised |-> None, ret |-> <<InstanceValue(name)>>]
    ELSE [raised |-> "NotFoundError", ret |-> <<>>]

\* Class.getattr(name, context): the values, or NotFoundError.
class_getattr(cls, name) ==
    IF name \in cls.locals
    THEN [raised |-> None, ret |-> <<ClassValue(name)>>]
    ELSE [raised |-> "NotFoundError", ret |-> <<>>]

\* A getattr that falls back on the class before the special names.
Instance_getattr_classfirst(cls, name, lookupclass) ==
    IF instance_attr(cls, name).raised = None
    THEN instance_attr(cls, name)
    ELSE IF lookupclass /\ class_getattr(cls, name).raised = None
    THEN class_getattr(cls, name)
    ELSE IF name = "__class__"
    THEN [raised |-> None, ret |-> <<TheClass>>]
    ELSE [raised |-> "NotFoundError", ret |-> <<>>]

\* Instance.getattr(name, context=None, lookupclass=True)
Instance_getattr(cls, name, lookupclass) ==
    IF instance_attr(cls, name).raised = None
    THEN instance_attr(cls, name)
    ELSE IF name = "__class__"
    THEN [raised |-> None, ret |-> <<TheClass>>]
    ELSE IF name = "__name__"
    THEN [raised |-> "NotFoundError", ret |-> <<>>]
    ELSE IF lookupclass
    THEN class_getattr(cls, name)
    ELSE [raised |-> "NotFoundError", ret |-> <<>>]

otherVarsAttr == <<paths, ctxs, origin, log, ev, st, cy, tr, sb, nr, ln, br>>

AttrGet(name, lookupclass) ==
    /\ at' = [at EXCEPT !.called = TRUE, !.name = name,
                        !.lookupclass = lookupclass,
                        !.result = Instance_getattr(at.cls, name, lookupclass)]
    /\ UNCHANGED otherVarsAttr

InitAttr ==
    /\ \E ia \in SUBSET AttrNames, cl \in SUBSET AttrNames :
          at = [cls |-> [instance_attrs |-> ia, locals |-> cl],
                called |-> FALSE, name |-> None, lookupclass |-> TRUE,
                result |-> [raised |-> None, ret |-> <<>>]]
    /\ paths = <<>> /\ ctxs = <<>> /\ origin = <<>> /\ log = <<>>
    /\ ev = NoEv /\ st = 0 /\ cy = 0 /\ tr = 0
    /\ sb = 0 /\ nr = 0 /\ ln = 0 /\ br = 0

NextAttr == \E name \in AttrNames, lookupclass \in BOOLEAN :
                AttrGet(name, lookupclass)

SpecAttr == InitAttr /\ [][NextAttr]_vars

\* ---------------------------------------------------------- nodes_of_class
\* A tree of nodes 1..n: node 1 is the Module, parent[k] < k, and a node's
\* children are in index order.

Kinds == {"Assign", "Function"}
KlassSets == {{"Assign"}, {"Function"}, {"Assign", "Function"}}
\* skip_klass: None, or classes
SkipSets == {[isNone |-> TRUE, classes |-> {}],
             [isNone |-> FALSE, classes |-> {"Function"}],
             [isNone |-> FALSE, classes |-> {"Assign"}]}

Trees ==
    UNION {{[n |-> n, parent |-> [k \in 1..n |-> IF k = 1 THEN 0 ELSE p[k]],
             kind |-> [k \in 1..n |-> IF k = 1 THEN "Module" ELSE kd[k]]] :
              p \in {f \in [2..n -> 1..n] : \A k \in 2..n : f[k] < k},
              kd \in [2..n -> Kinds]} : n \in 1..MaxNodes}

RECURSIVE ChildrenFrom(_, _, _)
ChildrenFrom(t, node, k) ==
    IF k > t.n THEN <<>>
    ELSE IF t.parent[k] = node THEN <<k>> \o ChildrenFrom(t, node, k + 1)
    ELSE ChildrenFrom(t, node, k + 1)
\* node.getChildNodes()
getChildNodes(t, node) == ChildrenFrom(t, node, 1)

\* isinstance(node, klass)
isinstance(t, node, klass) == t.kind[node] \in klass

\* nodes_of_class is a generator: a call makes it, every next() runs it to
\* its next yield.  A generator in progress is the stack of the nested
\* generators, the one for `self` first; each is at its start, suspended at
\* its own `yield self` (y210), or in its loop over the children (for), with
\* the list getChildNodes() gave it and the place of the next child.

NewFrame(node) == [node |-> node, pc |-> "start", kids |-> <<>>, i |-> 1]

\* for child_node in self.getChildNodes(): the list is asked for once
EnterFor(t, f) == [f EXCEPT !.pc = "for", !.kids = getChildNodes(t, f.node)]

\* skip_klass is not None and isinstance(child_node, skip_klass)
IsSkipped(t, child, skip) ==
    ~skip.isNone /\ isinstance(t, child, skip.classes)

RECURSIVE Resume(_, _, _, _)

\* A traversal that yields a skipped child but not what is below it.
Resume_yieldskipped(t, klass, skip, g) ==
    IF g.stack = <<>> THEN [g EXCEPT !.item = <<>>]
    ELSE LET f == Last(g.stack)
             rest == Front(g.stack) IN
         IF f.pc = "start" /\ isinstance(t, f.node, klass)
         THEN [g EXCEPT !.stack = Append(rest, [f EXCEPT !.pc = "y210"]),
                        !.item = <<f.node>>]
         ELSE IF f.pc \in {"start", "y210"}
         THEN Resume(t, klass, skip,
                     [g EXCEPT !.stack = Append(rest, EnterFor(t, f)),
                               !.entered = @ \cup {f.node}])
         ELSE IF f.i > Len(f.kids)
         THEN Resume(t, klass, skip, [g EXCEPT !.stack = rest])
         ELSE LET child == f.kids[f.i]
                  onward == Append(rest, [f EXCEPT !.i = @ + 1]) IN
              IF IsSkipped(t, child, skip)
              THEN IF isinstance(t, child, klass)
                   THEN [g EXCEPT !.stack = onward, !.item = <<child>>]
                   ELSE Resume(t, klass, skip, [g EXCEPT !.stack = onward])
              ELSE Resume(t, klass, skip,
                          [g EXCEPT !.stack = Append(onward, NewFrame(child))])

\* next() on the generator g: run on to the next yield, whose value is put
\* in item, or to the end of the outermost generator, item staying empty.
\* entered collects the nodes whose children were asked for.
Resume(t, klass, skip, g) ==
    IF g.stack = <<>> THEN [g EXCEPT !.item = <<>>]
    ELSE LET f == Last(g.stack)
             rest == Front(g.stack) IN
         IF f.pc = "start" /\ isinstance(t, f.node, klass)
         THEN [g EXCEPT !.stack = Append(rest, [f EXCEPT !.pc = "y210"]),
                        !.item = <<f.node>>]
         ELSE IF f.pc \in {"start", "y210"}
         THEN Resume(t, klass, skip,
                     [g EXCEPT !.stack = Append(rest, EnterFor(t, f)),
                               !.entered = @ \cup {f.node}])
         ELSE IF f.i > Len(f.kids)
         THEN Resume(t, klass, skip, [g EXCEPT !.stack = rest])
         ELSE LET child == f.kids[f.i]
                  onward == Append(rest, [f EXCEPT !.i = @ + 1]) IN
              IF IsSkipped(t, child, skip)
              THEN Resume(t, klass, skip, [g EXCEPT !.stack = onward])
              ELSE Resume(t, klass, skip,
                          [g EXCEPT !.stack = Append(onward, NewFrame(child))])

\* self.nodes_of_class(klass, skip_klass): the generator, not yet run
nodes_of_class(self) ==
    [stack |-> <<NewFrame(self)>>, entered |-> {}, item |-> <<>>]

otherVarsTree == <<paths, ctxs, origin, log, ev, st, cy, at, sb, nr, ln, br>>

\* One call on one node of the tree.
TreeCall(self, klass, skip) ==
    /\ ~tr.called
    /\ self \in 1..tr.t.n
    /\ tr' = [tr EXCEPT !.called = TRUE, !.self = self, !.klass = klass,
                        !.skip = skip, !.pc = "created",
                        !.g = nodes_of_class(self)]
    /\ UNCHANGED otherVarsTree

\* next() by the consumer: one more item, or StopIteration.
TreeNext ==
    /\ tr.called /\ tr.pc \in {"created", "suspended"}
    /\ LET g == Resume(tr.t, tr.klass, tr.skip, tr.g) IN
       tr' = [tr EXCEPT !.g = g,
                        !.result = @ \o g.item,
                        !.pc = IF g.item = <<>> THEN "done" ELSE "suspended"]
    /\ UNCHANGED otherVarsTree

InitTree ==
    /\ \E t \in Trees :
          tr = [t |-> t, called |-> FALSE, self |-> 1, klass |-> {},
                skip |-> [isNone |-> TRUE, classes |-> {}], result |-> <<>>,
                pc |-> None, g |-> [stack |-> <<>>, entered |-> {},
                                     item |-> <<>>]]
    /\ paths = <<>> /\ ctxs = <<>> /\ origin = <<>> /\ log = <<>>
    /\ ev = NoEv /\ st = 0 /\ cy = 0 /\ at = 0
    /\ sb = 0 /\ nr = 0 /\ ln = 0 /\ br = 0

NextTree ==
    \/ \E self \in 1..MaxNodes, klass \in KlassSets, skip \in SkipSets :
          TreeCall(self, klass, skip)
    \/ TreeNext

SpecTree == InitTree /\ [][NextTree]_vars

\* ------------------------------------------ next_sibling, previous_sibling
\* A block is a node whose attribute `nodes` lists its statements.  Under
\* statement i hangs a chain of b[i] non-statement nodes: <<i, 0>> is the
\* statement, <<i, d>> the node d levels below it.

NoNode == <<0, 0>>      \* the None a sibling query returns

Blocks == UNION {[1..n -> 0..MaxNest] : n \in 1..MaxBlock}

BlockNodes(b) == {<<i, d>> : i \in DOMAIN b, d \in 0..MaxNest} \cap
                 {nd \in (1..MaxBlock) \X (0..MaxNest) :
                     nd[1] \in DOMAIN b /\ nd[2] <= b[nd[1]]}

is_statement(node) == node[2] = 0

node_parent(node) == <<node[1], node[2] - 1>>

\* self.parent.nodes of a statement of block b
parent_nodes(b) == [i \in DOMAIN b |-> <<i, 0>>]

\* while not self.is_statement: self = self.parent
RECURSIVE enclosing_statement(_)
enclosing_statement(self) ==
    IF is_statement(self) THEN self
    ELSE enclosing_statement(node_parent(self))

\* list.index(x): position, counted from 0, of the first element equal to x
list_index(l, x) ==
    (CHOOSE i \in 1..Len(l) : l[i] = x /\ \A j \in 1..(i - 1) : l[j] # x) - 1

\* l[k] raises IndexError
IndexError(l, k) == k >= Len(l) \/ k < 0 - Len(l)

\* l[k], a negative k counting from the end
list_item(l, k) == IF k >= 0 THEN l[k + 1] ELSE l[Len(l) + k + 1]

next_sibling(b, self) ==
    LET stmt == enclosing_statement(self)
        nodes == parent_nodes(b)
        index == list_index(nodes, stmt)
    IN  IF IndexError(nodes, index + 1) THEN NoNode
        ELSE list_item(nodes, index + 1)

previous_sibling_nocheck(b, self) ==
    LET stmt == enclosing_statement(self)
        nodes == parent_nodes(b)
        index == list_index(nodes, stmt)
    IN  list_item(nodes, index - 1)

previous_sibling(b, self) ==
    LET stmt == enclosing_statement(self)
        nodes == parent_nodes(b)
        index == list_index(nodes, stmt)
    IN  IF index > 0 THEN list_item(nodes, index - 1)
        ELSE NoNode

otherVarsSib == <<paths, ctxs, origin, log, ev, st, cy, at, tr, nr, ln, br>>

SibNext(self) ==
    /\ ~sb.called
    /\ self \in BlockNodes(sb.block)
    /\ sb' = [sb EXCEPT !.called = TRUE, !.op = "next_sibling",
                        !.self = self,
                        !.result = next_sibling(sb.block, self)]
    /\ UNCHANGED otherVarsSib

SibPrevious(self) ==
    /\ ~sb.called
    /\ self \in BlockNodes(sb.block)
    /\ sb' = [sb EXCEPT !.called = TRUE, !.op = "previous_sibling",
                        !.self = self,
                        !.result = previous_sibling(sb.block, self)]
    /\ UNCHANGED otherVarsSib

InitSib ==
    /\ \E b \in Blocks :
          sb = [block |-> b, called |-> FALSE, op |-> None,
                self |-> NoNode, result |-> NoNode]
    /\ paths = <<>> /\ ctxs = <<>> /\ origin = <<>> /\ log = <<>>
    /\ ev = NoEv /\ st = 0 /\ cy = 0 /\ at = 0 /\ tr = 0
    /\ nr = 0 /\ ln = 0 /\ br = 0

NextSib ==
    \/ \E self \in (1..MaxBlock) \X (0..MaxNest) : SibNext(self)
    \/ \E self \in (1..MaxBlock) \X (0..MaxNest) : SibPrevious(self)

SpecSib == InitSib /\ [][NextSib]_vars

\* ------------------------------------------------------------------ nearest
\* A candidate is known by its place in the list handed to nearest(); it has
\* the line source_line() answers and the tree it belongs to.

Roots == {"module", "other"}

NearNodes == [line : 1..MaxLine, root : Roots]

NearLists == UNION {[1..n -> NearNodes] : n \in 0..MaxNear}

RECURSIVE nearest_loop(_, _, _, _, _)

\* the loop without `if node.source_line() > mylineno: break`
nearest_loop_nobreak(nodes, i, myroot, mylineno, nearest) ==
    IF i > Len(nodes) THEN [raised |-> None, ret |-> nearest[1]]
    ELSE LET node == nodes[i]
             lineno == node.line
         IN  IF node.root # myroot
             THEN [raised |-> "TypeError", ret |-> 0]
             ELSE nearest_loop(nodes, i + 1, myroot, mylineno,
                               IF lineno > nearest[2] THEN <<i, lineno>>
                               ELSE nearest)

\* for node in nodes: ..., from the i-th candidate on; nearest is the pair
\* (candidate, line) held so far, candidate 0 being None.  A failing assert
\* formats its message with one %s for the pair (self, node), and it is the
\* TypeError of that formatting that reaches the caller.
nearest_loop(nodes, i, myroot, mylineno, nearest) ==
    IF i > Len(nodes) THEN [raised |-> None, ret |-> nearest[1]]
    ELSE LET node == nodes[i]
             lineno == node.line
         IN  IF node.root # myroot
             THEN [raised |-> "TypeError", ret |-> 0]
             ELSE IF lineno > mylineno
             THEN [raised |-> None, ret |-> nearest[1]]
             ELSE nearest_loop(nodes, i + 1, myroot, mylineno,
                               IF lineno > nearest[2] THEN <<i, lineno>>
                               ELSE nearest)

\* self.nearest(nodes), self of tree myroot and source line mylineno
nearest(myroot, mylineno, nodes) ==
    nearest_loop(nodes, 1, myroot, mylineno, <<0, 0>>)

otherVarsNear == <<paths, ctxs, origin, log, ev, st, cy, at, tr, sb, ln, br>>

NearCall ==
    /\ ~nr.called
    /\ nr' = [nr EXCEPT !.called = TRUE,
                        !.result = nearest(nr.myroot, nr.mylineno, nr.nodes)]
    /\ UNCHANGED otherVarsNear

InitNear ==
    /\ \E nodes \in NearLists, mylineno \in 1..MaxLine :
          nr = [myroot |-> "module", mylineno |-> mylineno, nodes |-> nodes,
                called |-> FALSE, result |-> [raised |-> None, ret |-> 0]]
    /\ paths = <<>> /\ ctxs = <<>> /\ origin = <<>> /\ log = <<>>
    /\ ev = NoEv /\ st = 0 /\ cy = 0 /\ at = 0 /\ tr = 0
    /\ sb = 0 /\ ln = 0 /\ br = 0

NextNear == NearCall

SpecNear == InitNear /\ [][NextNear]_vars

\* ------------------------------------------- source_line, last_source_line
\* A tree of nodes 1..n as above, each with the attribute lineno the parser
\* left on it (NoLine where it left none), and each node's
\* _cached_last_source_line once it is set.

max(a, b) == IF b > a THEN b ELSE a

\* while line is None: _node = _node.getChildNodes()[0]; line = _node.lineno
RECURSIVE FirstChildLine(_, _, _)
FirstChildLine(t, lineno, node) ==
    LET kids == getChildNodes(t, node) IN
    IF kids = <<>> THEN [raised |-> "IndexError", line |-> NoLine]
    ELSE IF lineno[kids[1]] # NoLine
         THEN [raised |-> None, line |-> lineno[kids[1]]]
         ELSE FirstChildLine(t, lineno, kids[1])

\* while _node and line is None: line = _node.lineno; _node = _node.parent
RECURSIVE AncestorLine(_, _, _)
AncestorLine(t, lineno, node) ==
    IF node = 0 THEN NoLine
    ELSE IF lineno[node] # NoLine THEN lineno[node]
    ELSE AncestorLine(t, lineno, t.parent[node])

\* self.source_line(): the line, and the lineno attributes after the call
source_line(t, lineno, self) ==
    IF lineno[self] # NoLine THEN [ret |-> lineno[self], lineno |-> lineno]
    ELSE LET down == FirstChildLine(t, lineno, self)
             line == IF down.raised = None THEN down.line
                     ELSE AncestorLine(t, lineno, t.parent[self])
         IN  [ret |-> line, lineno |-> [lineno EXCEPT ![self] = line]]

RECURSIVE last_source_line(_, _, _)

\* for node in self.getChildNodes(): line = max(line, node.last_source_line())
\* from the i-th child on; s holds every node's lineno and cache and the
\* nodes whose value has been computed during the call
RECURSIVE MaxOverChildren(_, _, _, _, _)
MaxOverChildren(t, s, kids, i, line) ==
    IF i > Len(kids) THEN [line |-> line, s |-> s]
    ELSE LET r == last_source_line(t, s, kids[i])
         IN  MaxOverChildren(t, r.s, kids, i + 1, max(line, r.ret))

last_source_line(t, s, self) ==
    IF s.cache[self].has THEN [ret |-> s.cache[self].line, s |-> s]
    ELSE LET sl == source_line(t, s.lineno, self)
             r == MaxOverChildren(t, [s EXCEPT !.lineno = sl.lineno],
                                  getChildNodes(t, self), 1, sl.ret)
         IN  [ret |-> r.line,
              s |-> [r.s EXCEPT !.cache[self] = [has |-> TRUE,
                                                  line |-> r.line],
                                !.computed = Append(@, self)]]

\* The trees the parser may leave: any node with a line number or none.
LineTrees ==
    UNION {{[n |-> n,
             parent |-> [k \in 1..n |-> IF k = 1 THEN 0 ELSE p[k]],
             lineno |-> l] :
               p \in {f \in [2..n -> 1..n] : \A k \in 2..n : f[k] < k},
               l \in [1..n -> {NoLine} \cup 1..MaxLine]} :
           n \in 1..MaxTree}

otherVarsLine == <<paths, ctxs, origin, log, ev, st, cy, at, tr, sb, nr, br>>

LineSource(self) ==
    /\ self \in 1..ln.t.n
    /\ LET r == source_line(ln.t, ln.lineno, self) IN
       ln' = [ln EXCEPT !.lineno = r.lineno, !.op = "source_line",
                        !.self = self, !.ret = r.ret,
                        !.hit = FALSE, !.computed = <<>>]
    /\ UNCHANGED otherVarsLine

LineLast(self) ==
    /\ self \in 1..ln.t.n
    /\ LET r == last_source_line(ln.t, [lineno |-> ln.lineno,
                                        cache |-> ln.cache,
                                        computed |-> <<>>], self) IN
       ln' = [ln EXCEPT !.lineno = r.s.lineno, !.cache = r.s.cache,
                        !.op = "last_source_line",
                        !.self = self, !.ret = r.ret,
                        !.hit = ln.cache[self].has,
                        !.computed = r.s.computed]
    /\ UNCHANGED otherVarsLine

InitLine ==
    /\ \E t \in LineTrees :
          ln = [t |-> [n |-> t.n, parent |-> t.parent],
                lineno |-> t.lineno,
                cache |-> [k \in 1..t.n |-> [has |-> FALSE, line |-> NoLine]],
                op |-> None, self |-> 1, ret |-> NoLine,
                hit |-> FALSE, computed |-> <<>>]
    /\ paths = <<>> /\ ctxs = <<>> /\ origin = <<>> /\ log = <<>>
    /\ ev = NoEv /\ st = 0 /\ cy = 0 /\ at = 0 /\ tr = 0
    /\ sb = 0 /\ nr = 0 /\ br = 0

NextLine ==
    \/ \E self \in 1..MaxTree : LineSource(self)
    \/ \E self \in 1..MaxTree : LineLast(self)

SpecLine == InitLine /\ [][NextLine]_vars

\* -------------------------------------------------------------- block_range
\* A compound statement as block_range reads it: line is what the node's
\* source_line() answers and last what its last_source_line() answers.
\* An If has tests, one per branch, each with the start and last line of
\* its body node; a TryExcept has handlers, one per except clause, each with
\* the line of `except` (head), whether an exception class is given on it
\* (excls), and the start and last line of its body node.  else_ is empty
\* or holds the start and last line of the else body.  The parser puts a
\* body on its keyword's line, on the next line, or further down (a
\* condition on several lines, a comment or an empty line in between).

FirstLine == 2      \* the line the statement is on

\* a body of one line, or of more
Spans == {1, 2}

\* the lines from a keyword to its body: none, one, or more
Gaps == {0, 1, 2}

ClauseShapes == [gap : Gaps, len : Spans]

\* a handler may also stand one line below the end of what precedes it
HandlerShapes == [excls : BOOLEAN, sep : {0, 1}, gap : Gaps, len : Spans]

\* the bodies of the given shapes, the first one at or below line `from`
RECURSIVE Layout(_, _)
Layout(from, shapes) ==
    IF shapes = <<>> THEN <<>>
    ELSE LET c == shapes[1]
             start == from + c.gap
         IN  <<[start |-> start, last |-> start + c.len - 1]>>
             \o Layout(start + c.len, Tail(shapes))

\* the handlers of the given shapes, the first one at or below line `from`
RECURSIVE HandlerLayout(_, _)
HandlerLayout(from, shapes) ==
    IF shapes = <<>> THEN <<>>
    ELSE LET h == shapes[1]
             head == from + h.sep
             start == head + h.gap
         IN  <<[head |-> head, excls |-> h.excls, start |-> start,
                last |-> start + h.len - 1]>>
             \o HandlerLayout(start + h.len, Tail(shapes))

ElseShapes == {<<>>} \cup {<<c>> : c \in ClauseShapes}

LastOf(blocks, else_) ==
    IF else_ # <<>> THEN else_[1].last ELSE Last(blocks).last

IfNodes ==
    {LET tests == Layout(FirstLine, shapes)
         else_ == Layout(Last(tests).last + 1, e)
     IN  [kind |-> "If", line |-> FirstLine, last |-> LastOf(tests, else_),
          tests |-> tests, handlers |-> <<>>, else_ |-> else_] :
        shapes \in UNION {[1..n -> ClauseShapes] : n \in 1..(MaxBranches + 1)},
        e \in ElseShapes}

\* the try body ends on the line of `try` or on the next one
TryExceptNodes ==
    {LET handlers == HandlerLayout(FirstLine + b, shapes)
         else_ == Layout(Last(handlers).last + 1, e)
     IN  [kind |-> "TryExcept", line |-> FirstLine,
          last |-> LastOf(handlers, else_),
          tests |-> <<>>, handlers |-> handlers, else_ |-> else_] :
        b \in Spans,
        shapes \in UNION {[1..n -> HandlerShapes] : n \in 1..MaxBranches},
        e \in ElseShapes}

\* elsed_block_range(node, lineno, last); last=None is NoLine
elsed_block_range(node, lineno, last) ==
    IF lineno = node.line THEN <<lineno, lineno>>
    ELSE IF node.else_ # <<>>
         THEN IF lineno >= node.else_[1].start
              THEN <<lineno, node.else_[1].last>>
              ELSE <<lineno, node.else_[1].start - 1>>
         ELSE <<lineno, IF last # NoLine THEN last ELSE node.last>>

RECURSIVE if_tests(_, _, _, _)

\* the loop without `if lineno == testbody.source_line()`
if_tests_noheader(node, lineno, i, last) ==
    IF i > Len(node.tests) THEN elsed_block_range(node, lineno, last)
    ELSE LET testbody == node.tests[i] IN
         IF lineno <= testbody.last THEN <<lineno, testbody.last>>
         ELSE if_tests(node, lineno, i + 1,
                       IF last = NoLine THEN testbody.start - 1 ELSE last)

\* for test, testbody in node.tests[1:], from the i-th test on, and the
\* return that follows the loop
if_tests(node, lineno, i, last) ==
    IF i > Len(node.tests) THEN elsed_block_range(node, lineno, last)
    ELSE LET testbody == node.tests[i] IN
         IF lineno = testbody.start THEN <<lineno, lineno>>
         ELSE IF lineno <= testbody.last THEN <<lineno, testbody.last>>
         ELSE if_tests(node, lineno, i + 1,
                       IF last = NoLine THEN testbody.start - 1 ELSE last)

if_block_range(node, lineno) == if_tests(node, lineno, 2, NoLine)

\* for excls, exinst, exbody in node.handlers, from the i-th handler on, and
\* the return that follows the loop
RECURSIVE try_handlers(_, _, _, _)
try_handlers(node, lineno, i, last) ==
    IF i > Len(node.handlers) THEN elsed_block_range(node, lineno, last)
    ELSE LET h == node.handlers[i] IN
         IF h.excls /\ lineno = h.head THEN <<lineno, lineno>>
         ELSE IF h.start <= lineno /\ lineno <= h.last
         THEN <<lineno, h.last>>
         ELSE try_handlers(node, lineno, i + 1,
                           IF last = NoLine THEN h.start - 1 ELSE last)

try_except_block_range(node, lineno) == try_handlers(node, lineno, 1, NoLine)

\* node.block_range(lineno)
block_range(node, lineno) ==
    IF node.kind = "If" THEN if_block_range(node, lineno)
    ELSE try_except_block_range(node, lineno)

otherVarsRange == <<paths, ctxs, origin, log, ev, st, cy, at, tr, sb, nr, ln>>

RangeCall(lineno) ==
    /\ ~br.called
    /\ br.node.line <= lineno /\ lineno <= br.node.last
    /\ br' = [br EXCEPT !.called = TRUE, !.lineno = lineno,
                        !.result = block_range(br.node, lineno)]
    /\ UNCHANGED otherVarsRange

InitRange ==
    /\ \E node \in IfNodes \cup TryExceptNodes :
          br = [node |-> node, called |-> FALSE, lineno |-> NoLine,
                result |-> <<NoLine, NoLine>>]
    /\ paths = <<>> /\ ctxs = <<>> /\ origin = <<>> /\ log = <<>>
    /\ ev = NoEv /\ st = 0 /\ cy = 0 /\ at = 0 /\ tr = 0
    /\ sb = 0 /\ nr = 0 /\ ln = 0

NextRange == \E lineno \in br.node.line..br.node.last : RangeCall(lineno)

SpecRange == InitRange /\ [][NextRange]_vars

\* ------------------------------------------------- claims on the contexts

PathOf(c) == paths[ctxs[c].path]
PrePathOf(c) == ev.pre[ctxs[c].path]
EvPair == <<ev.node, ev.name>>

\* C1: push(node) with the pair (node, lookup name) already in the path
\* signals StopIteration and leaves every path as it was; otherwise it
\* appends exactly that pair to the context's path and signals nothing.
C1_PushContract ==
    ev.op = "push" =>
        IF InSeq(EvPair, PrePathOf(ev.ctx))
        THEN ev.raised = "StopIteration" /\ paths = ev.pre
        ELSE /\ ev.raised = None
             /\ paths = [ev.pre EXCEPT ![ctxs[ev.ctx].path] = Append(@, EvPair)]

\* A push of a visited pair on a path of two pairs was refused.
C1_Witness ==
    /\ ev.op = "push" /\ ev.raised = "StopIteration"
    /\ Len(PathOf(ev.ctx)) = 2
    /\ InSeq(EvPair, PathOf(ev.ctx))

\* C2 as stated: the clone carries a copy of the path, so a pair pushed
\* through one context after cloning is not added to the path of the
\* context it was cloned from, nor to the path of its clones.
C2_ClonePathIsCopy ==
    /\ ev.op = "clone" =>
          /\ Last(ctxs).callcontext = ctxs[ev.ctx].callcontext
          /\ Last(ctxs).boundnode = ctxs[ev.ctx].boundnode
          /\ \A i \in 1..Len(PrePathOf(ev.ctx)) :
                InSeq(PrePathOf(ev.ctx)[i], PathOf(Len(ctxs)))
    /\ (ev.op = "push" /\ ev.raised = None) =>
          \A o \in 1..Len(ctxs) :
              (o # ev.ctx /\ (origin[ev.ctx] = o \/ origin[o] = ev.ctx))
                  => PathOf(o) = PrePathOf(o)

\* C2, amended: clone() builds the new context on the very list the
\* original holds: at clone time no list changes, callcontext, boundnode
\* and startingfrom are carried over and lookupname is reset to None; and
\* from then on a context and its clone see the same path, a pair pushed
\* through either being in the path of both.
C2_CloneSharesPath ==
    /\ ev.op = "clone" =>
          /\ paths = ev.pre
          /\ Last(ctxs).callcontext = ctxs[ev.ctx].callcontext
          /\ Last(ctxs).boundnode = ctxs[ev.ctx].boundnode
          /\ Last(ctxs).startingfrom = ctxs[ev.ctx].startingfrom
          /\ Last(ctxs).lookupname = None
    /\ \A c \in 1..Len(ctxs) :
          origin[c] # 0 => PathOf(c) = PathOf(origin[c])
    /\ (ev.op = "push" /\ ev.raised = None) =>
          \A o \in 1..Len(ctxs) : InSeq(EvPair, PathOf(o))

\* A pair pushed through a clone, which carries call and bound
\* information, is in the path of the context it was cloned from.
C2_Witness ==
    /\ ev.op = "push" /\ ev.raised = None
    /\ origin[ev.ctx] # 0
    /\ ctxs[ev.ctx].callcontext # None
    /\ ~InSeq(EvPair, PrePathOf(origin[ev.ctx]))
    /\ InSeq(EvPair, PathOf(origin[ev.ctx]))

\* The pushes of context c that are still in the log of its list.
OwnPushes(c) == {i \in 1..Len(ev.prelog[ctxs[c].path]) :
                    ev.prelog[ctxs[c].path][i].by = c}
MaxOf(S) == CHOOSE i \in S : \A j \in S : j <= i

\* C8 as stated: a context's pop removes the pair that the same context's
\* latest unmatched successful push added.
C8_PopOwnPush ==
    (ev.op = "pop" /\ ev.raised = None /\ OwnPushes(ev.ctx) # {}) =>
        /\ ev.by = ev.ctx
        /\ ev.ret = ev.prelog[ctxs[ev.ctx].path][MaxOf(OwnPushes(ev.ctx))].pair

\* C8, amended: pop() on a non-empty path removes and returns the last
\* pair of the list the context holds, leaving every other pair in place;
\* since a context and its clones hold one list, that is the pair added by
\* the latest unmatched successful push through any of them.
C8_PopLatestOfSharedPath ==
    /\ (ev.op = "pop" /\ PrePathOf(ev.ctx) # <<>>) =>
          /\ ev.raised = None
          /\ ev.ret = Last(PrePathOf(ev.ctx))
          /\ ev.ret = Last(ev.prelog[ctxs[ev.ctx].path]).pair
          /\ paths = [ev.pre EXCEPT ![ctxs[ev.ctx].path] = Front(@)]
    /\ \A p \in 1..Len(paths) :
          /\ Len(log[p]) = Len(paths[p])
          /\ \A i \in 1..Len(paths[p]) : log[p][i].pair = paths[p][i]

\* A context popped, from a path of two pairs, a pair that another
\* context had pushed.
C8_Witness ==
    /\ ev.op = "pop" /\ ev.raised = None
    /\ Len(PrePathOf(ev.ctx)) = 2
    /\ ev.by # ev.ctx
    /\ OwnPushes(ev.ctx) # {}

\* ------------------------------------------------ claims on _infer_stmts

StDone == st.pc = "done"
Fails(k, exc) == ~IsYES(st.stmts[k]) /\ st.stmts[k].raises = exc
NoNotFound == \A k \in 1..Len(st.stmts) : ~Fails(k, "NotFoundError")
FirstNotFound ==
    IF NoNotFound THEN Len(st.stmts)
    ELSE CHOOSE k \in 1..Len(st.stmts) :
            /\ Fails(k, "NotFoundError")
            /\ \A j \in 1..(k - 1) : ~Fails(j, "NotFoundError")
\* Candidate k has been dealt with: the loop is past it, or is suspended
\* at the yield of its except clause.
CandDone(k) ==
    /\ k \in 1..st.i
    /\ (k < st.i \/ StDone \/ st.pc = "y891")

\* C3: _infer_stmts fails with InferenceError exactly when every candidate
\* was processed and nothing, Unknown included, was yielded (no candidates,
\* candidates yielding nothing, candidates all skipped); when every
\* candidate was processed and something was yielded it returns.
C3_FailsIffNothingYielded ==
    StDone =>
        /\ (st.status = "InferenceError") <=> (NoNotFound /\ st.out = <<>>)
        /\ (NoNotFound /\ st.out # <<>>) => st.status = "returned"
        /\ NoNotFound => st.i = Len(st.stmts)

\* Three candidates, one yielding nothing and one skipped, ended in an
\* InferenceError.
C3_Witness ==
    /\ StDone /\ st.status = "InferenceError"
    /\ Len(st.stmts) = 3 /\ st.i = 3
    /\ \E k \in 1..3 : Fails(k, "UnresolvableName")
    /\ \E k \in 1..3 : ~IsYES(st.stmts[k]) /\ st.stmts[k].raises = None

\* C4: when a candidate's infer ends in InferenceError, the failure does
\* not leave _infer_stmts: YES is yielded once for it, after the values it
\* had produced, success is marked, and the candidates after it are
\* processed.
C4_InferenceErrorBecomesYES ==
    /\ \A k \in 1..Len(st.stmts) :
          (CandDone(k) /\ Fails(k, "InferenceError")) =>
              /\ st.seg[k] = st.stmts[k].yields \o <<YES>>
              /\ (k < st.i \/ StDone) => Truth(st.infered)
              /\ st.status # "InferenceError"
    /\ StDone => st.i = FirstNotFound

\* A candidate failed with InferenceError, a later one yielded a value,
\* and the run returned.
C4_Witness ==
    /\ StDone /\ st.status = "returned"
    /\ \E k \in 1..(Len(st.stmts) - 1) :
          /\ Fails(k, "InferenceError")
          /\ st.seg[k + 1] # <<>>
          /\ ~IsYES(st.stmts[k + 1])

\* C5 as stated: a candidate failing with not-found is treated like one
\* failing with unresolvable-name: nothing is yielded for the failure, it
\* does not leave _infer_stmts, and the next candidate is processed.
C5_NotFoundSkipped ==
    /\ \A k \in 1..Len(st.stmts) :
          (CandDone(k) /\ (Fails(k, "NotFoundError")
                             \/ Fails(k, "UnresolvableName"))) =>
              st.seg[k] = st.stmts[k].yields
    /\ StDone => /\ st.status \in {"returned", "InferenceError"}
                 /\ st.i = Len(st.stmts)

\* What candidate k contributes: YES itself, or the values its infer
\* produced, then YES if it ended in InferenceError.
Emit(k) ==
    IF IsYES(st.stmts[k]) THEN <<YES>>
    ELSE IF st.stmts[k].raises = "InferenceError"
    THEN st.stmts[k].yields \o <<YES>>
    ELSE st.stmts[k].yields
RECURSIVE EmitUpTo(_)
EmitUpTo(n) == IF n = 0 THEN <<>> ELSE EmitUpTo(n - 1) \o Emit(n)
IsPrefix(a, b) == Len(a) <= Len(b) /\ a = SubSeq(b, 1, Len(a))

\* C6: every value a candidate's infer produces is yielded, in candidate
\* order and, within a candidate, in the order produced: what has been
\* yielded is always a prefix of the candidates' values laid end to end,
\* and all of it once the run is over.
C6_AllValuesInOrder ==
    /\ IsPrefix(st.out, EmitUpTo(st.i))
    /\ StDone => st.out = EmitUpTo(st.i)
    /\ (StDone /\ NoNotFound) => st.i = Len(st.stmts)

\* Three assignments yielding 1, 2 and 3 gave 1, 2, 3.
C6_Witness ==
    /\ StDone
    /\ Len(st.stmts) = 3
    /\ \A k \in 1..3 : st.stmts[k].kind = "AssName"
    /\ st.out = <<"1", "2", "3">>

\* ------------------------------------------------- claims on the engine

CyDone == cy.pc = "done"
\* Every right-hand side is a name: the bindings only refer to each other.
OnlyReferences == \A k \in 1..Len(cy.binds) : cy.binds[k].rhs \notin Consts

\* C7: the inference of a name over any finite set of bindings, cyclic
\* ones included, comes to an end; no chain of calls holds a statement
\* twice; and when the bindings only refer to each other the outcome is
\* no result at all or the Unknown value.
C7_CycleSafety ==
    /\ <>CyDone
    /\ [](Len(cy.stack) + 2 <= MaxDepth)
    /\ [](OnlyReferences => \A j \in 1..Len(cy.out) : cy.out[j] = YES)
    /\ [](CyDone =>
            /\ cy.status \in {"returned", "InferenceError", "UnresolvableName"}
            /\ (cy.status = "returned") <=> (cy.out # <<>>))

\* a = b; b = a: inferring a re-entered a visited statement, ended, and
\* gave the Unknown value.
C7_Witness ==
    /\ CyDone
    /\ cy.binds = <<[target |-> "a", rhs |-> "b"], [target |-> "b", rhs |-> "a"]>>
    /\ cy.query = "a"
    /\ cy.hits
    /\ cy.out = <<YES>>

\* ---------------------------------------------- claims on Instance.getattr

\* C9 as stated: whatever the class's tables hold, getattr('__name__')
\* fails with NotFoundError and getattr('__class__') returns the wrapped
\* class, with lookupclass set or not.
C9_AlwaysSpecial ==
    at.called =>
        /\ at.name = "__name__" => at.result.raised = "NotFoundError"
        /\ at.name = "__class__" =>
              at.result = [raised |-> None, ret |-> <<TheClass>>]

\* C9, amended: when the instance-level table of the wrapped class does
\* not bind the name, getattr('__name__') fails with NotFoundError, also
\* when the class itself defines __name__, and getattr('__class__')
\* returns the wrapped class, with lookupclass set or not; when the
\* instance-level table binds the name, getattr returns those bindings.
C9_SpecialUnlessInstanceAttr ==
    (at.called /\ at.name \in {"__name__", "__class__"}) =>
        IF at.name \in at.cls.instance_attrs
        THEN at.result = [raised |-> None, ret |-> <<InstanceValue(at.name)>>]
        ELSE /\ at.name = "__name__" =>
                   at.result = [raised |-> "NotFoundError", ret |-> <<>>]
             /\ at.name = "__class__" =>
                   at.result = [raised |-> None, ret |-> <<TheClass>>]

\* getattr('__name__') with the class lookup on failed on a class that
\* defines __name__.
C9_Witness ==
    /\ at.called /\ at.name = "__name__" /\ at.lookupclass
    /\ "__name__" \in at.cls.locals
    /\ "__name__" \notin at.cls.instance_attrs
    /\ at.result.raised = "NotFoundError"

\* ------------------------------------------------ claims on nodes_of_class

RECURSIVE PathFromRoot(_, _)
PathFromRoot(t, x) ==
    IF x = 1 THEN <<1>> ELSE Append(PathFromRoot(t, t.parent[x]), x)
\* x is `self` or below it
Under(t, self, x) == InSeq(self, PathFromRoot(t, x))
\* The nodes from just below `self` down to x, x included.
Below(t, self, x) ==
    {y \in 1..t.n : y # self /\ Under(t, self, y) /\ Under(t, y, x)}
Skipped(y) == ~tr.skip.isNone /\ tr.t.kind[y] \in tr.skip.classes
\* Pre-order: an ancestor first, then by the order of the children.
Before(t, x, y) ==
    LET px == PathFromRoot(t, x)
        py == PathFromRoot(t, y) IN
    \/ (Len(px) < Len(py) /\ px = SubSeq(py, 1, Len(px)))
    \/ \E i \in 1..Len(px) :
          /\ i <= Len(py)
          /\ SubSeq(px, 1, i - 1) = SubSeq(py, 1, i - 1)
          /\ px[i] < py[i]
InPreOrder(t, r) ==
    \A i, j \in 1..Len(r) : i < j => Before(t, r[i], r[j])
Elems(r) == {r[i] : i \in 1..Len(r)}

\* Module(Assign, Assign, Function(Assign))
ExampleTree ==
    [n |-> 5, parent |-> <<0, 1, 1, 1, 4>>,
     kind |-> <<"Module", "Assign", "Assign", "Function", "Assign">>]
ExampleCall ==
    /\ tr.called /\ tr.t = ExampleTree /\ tr.self = 1
    /\ tr.klass = {"Assign", "Function"}
    /\ tr.skip = [isNone |-> FALSE, classes |-> {"Function"}]

\* The nodes the claim has a walk yield: those at or below `self` matching
\* klass, reached through no node matching skip_klass, the node itself
\* excepted.
YieldedAsStated ==
    {x \in 1..tr.t.n :
        /\ Under(tr.t, tr.self, x)
        /\ tr.t.kind[x] \in tr.klass
        /\ \A y \in Below(tr.t, tr.self, x) \ {x} : ~Skipped(y)}

\* The same, a node matching skip_klass being left out as well.
YieldedUnskipped ==
    {x \in 1..tr.t.n :
        /\ Under(tr.t, tr.self, x)
        /\ tr.t.kind[x] \in tr.klass
        /\ \A y \in Below(tr.t, tr.self, x) : ~Skipped(y)}

TreeDone == tr.called /\ tr.pc = "done"

\* C10 as stated: a node matching skip_klass is itself yielded when it
\* matches klass, only what is below it is left out; on the example the
\* result is the two statements and the function definition.
C10_SkippedNodeYielded ==
    tr.called =>
        /\ InPreOrder(tr.t, tr.result)
        /\ Elems(tr.result) \subseteq YieldedAsStated
        /\ TreeDone => Elems(tr.result) = YieldedAsStated
        /\ (TreeDone /\ ExampleCall) => tr.result = <<2, 3, 4>>

\* C10, amended: nodes_of_class yields, depth-first pre-order and once
\* each, `self` when it matches klass and every matching node below it that
\* is reached through nodes none of which, the node itself included,
\* matches skip_klass: a child matching skip_klass is neither yielded nor
\* entered. On the example the result is the two top-level statements.
C10_SkippedNodeNotYielded ==
    tr.called =>
        /\ InPreOrder(tr.t, tr.result)
        /\ Elems(tr.result) \subseteq YieldedUnskipped
        /\ \A x \in tr.g.entered :
              /\ Under(tr.t, tr.self, x)
              /\ \A y \in Below(tr.t, tr.self, x) : ~Skipped(y)
        /\ TreeDone => Elems(tr.result) = YieldedUnskipped
        /\ (TreeDone /\ ExampleCall) => tr.result = <<2, 3>>

\* The example was walked to its end and gave the two top-level statements.
C10_Witness == TreeDone /\ ExampleCall /\ tr.result = <<2, 3>>

\* C16: on a context created with an empty path and on all of its clones,
\* whatever pushes, pops and clones are made, no path holds the same
\* (node, lookup name) pair twice.
C16_NoDuplicateInPath ==
    \A p \in 1..Len(paths) :
        \A i, j \in 1..Len(paths[p]) : i # j => paths[p][i] # paths[p][j]

\* A clone tried to push a pair that another context had pushed on the
\* path, and was refused.
C16_Witness ==
    /\ ev.op = "push" /\ ev.raised = "StopIteration"
    /\ origin[ev.ctx] # 0
    /\ \E i \in 1..Len(log[ctxs[ev.ctx].path]) :
          /\ log[ctxs[ev.ctx].path][i].pair = EvPair
          /\ log[ctxs[ev.ctx].path][i].by # ev.ctx

\* ------------------------------------------------- claims on the siblings

\* C13: in a block [s1, ..., sn], next_sibling() of statement i is
\* statement i+1 and none for the last one, previous_sibling() of statement
\* i is statement i-1 and none for the first one, and a node nested in
\* statement i gets the answers of statement i.
C13_SiblingsAlongBlock ==
    sb.called =>
        LET i == sb.self[1]
            n == Len(sb.block)
        IN  /\ sb.op = "next_sibling" =>
                sb.result = IF i < n THEN <<i + 1, 0>> ELSE NoNode
            /\ sb.op = "previous_sibling" =>
                sb.result = IF i > 1 THEN <<i - 1, 0>> ELSE NoNode

\* previous_sibling() asked of a node nested in the first of several
\* statements answered none.
C13_Witness ==
    /\ sb.called /\ sb.op = "previous_sibling"
    /\ Len(sb.block) > 1
    /\ sb.self[1] = 1 /\ sb.self[2] > 0
    /\ sb.result = NoNode

\* ---------------------------------------------------- claims on nearest()

\* The candidates are given in non-decreasing line order.
NearSorted ==
    \A i, j \in 1..Len(nr.nodes) :
        i <= j => nr.nodes[i].line <= nr.nodes[j].line

\* The candidates whose line does not exceed self's line.
NearFit == {i \in 1..Len(nr.nodes) : nr.nodes[i].line <= nr.mylineno}

\* C14: for candidates of self's tree given in non-decreasing line order,
\* nearest() returns a candidate whose line is the greatest of the lines not
\* exceeding self's line, and returns none only if no candidate's line is at
\* most self's line.
C14_NearestIsGreatestNotAfter ==
    (/\ nr.called /\ NearSorted
     /\ \A i \in 1..Len(nr.nodes) : nr.nodes[i].root = nr.myroot) =>
        /\ nr.result.raised = None
        /\ nr.result.ret = 0 => NearFit = {}
        /\ nr.result.ret # 0 =>
              /\ nr.result.ret \in NearFit
              /\ \A j \in NearFit :
                    nr.nodes[j].line <= nr.nodes[nr.result.ret].line

\* A call with candidates before, on and after self's line returned one on
\* self's line.
C14_Witness ==
    /\ nr.called /\ NearSorted
    /\ \A i \in 1..Len(nr.nodes) : nr.nodes[i].root = nr.myroot
    /\ \E i, j \in 1..Len(nr.nodes) :
          /\ nr.nodes[i].line < nr.mylineno
          /\ nr.nodes[j].line > nr.mylineno
    /\ nr.result.ret # 0
    /\ nr.nodes[nr.result.ret].line = nr.mylineno

\* ------------------------------------------- claims on last_source_line()

\* The nodes strictly below node k.
LineDescendants(k) == {d \in 1..ln.t.n : d # k /\ Under(ln.t, k, d)}

\* C15: the value last_source_line() stores on a node is the greatest of the
\* node's own source line and the last source lines of its descendants, so
\* it is at least the node's source line; the first call on a node computes
\* and stores the value, and a later call returns the stored value and
\* computes nothing.
C15_LastSourceLineMemoizedMax ==
    /\ \A k \in 1..ln.t.n :
          ln.cache[k].has =>
              /\ \A d \in LineDescendants(k) : ln.cache[d].has
              /\ ln.cache[k].line =
                    MaxOf({ln.lineno[k]} \cup
                          {ln.cache[d].line : d \in LineDescendants(k)})
              /\ ln.cache[k].line >= source_line(ln.t, ln.lineno, k).ret
    /\ ln.op = "last_source_line" =>
          /\ ln.cache[ln.self] = [has |-> TRUE, line |-> ln.ret]
          /\ ln.hit => ln.computed = <<>>
          /\ ~ln.hit => InSeq(ln.self, ln.computed)

\* ---------------------------------------------------- claims on block_range

\* The call was made on a conditional chain.
OnIf == br.called /\ br.node.kind = "If"

\* The line on which branch i begins: the statement's own line for the
\* first, the line after the body before it for the others.
BranchHead(i) ==
    IF i = 1 THEN br.node.line ELSE br.node.tests[i - 1].last + 1

\* The line on which the else clause begins, after the last body before it.
ElseHead ==
    IF br.node.kind = "If" THEN Last(br.node.tests).last + 1
    ELSE Last(br.node.handlers).last + 1

\* L lies in branch i: on the line it begins on, in its body or in between.
InBranch(i) ==
    BranchHead(i) <= br.lineno /\ br.lineno <= br.node.tests[i].last

\* L lies in the else clause.
InElse ==
    /\ br.node.else_ # <<>>
    /\ ElseHead <= br.lineno
    /\ br.lineno <= br.node.else_[1].last

\* C11 as stated: on a conditional chain block_range(L) is (L, L) when L is
\* the header line of a branch, (start of the branch, last line of its body)
\* when L lies inside the body of a branch after the first, and (start of
\* the else clause, its last line) when L lies inside the else clause.
C11_SpanFromBranchStart ==
    OnIf =>
        /\ \A i \in 1..Len(br.node.tests) :
              br.lineno = BranchHead(i) =>
                  br.result = <<br.lineno, br.lineno>>
        /\ \A i \in 2..Len(br.node.tests) :
              (InBranch(i) /\ br.lineno # BranchHead(i)) =>
                  br.result = <<BranchHead(i), br.node.tests[i].last>>
        /\ InElse => br.result = <<ElseHead, br.node.else_[1].last>>

\* C11: on a conditional chain block_range(L) starts at L.  It is (L, L)
\* when L is the first line of the body of a branch after the first and
\* when L is the line of the only branch's keyword; (L, last line of the
\* body) when L is any other line of a branch after the first, the
\* keyword's line included; (L, last line of the else body) when L lies in
\* the else body, and (L, line before the else body) when L lies in the
\* else clause above its body.
C11_SpanFromLine ==
    OnIf =>
        /\ br.result[1] = br.lineno
        /\ \A i \in 2..Len(br.node.tests) :
              br.lineno = br.node.tests[i].start =>
                  br.result = <<br.lineno, br.lineno>>
        /\ (Len(br.node.tests) = 1 /\ br.lineno = br.node.line) =>
              br.result = <<br.lineno, br.lineno>>
        /\ \A i \in 2..Len(br.node.tests) :
              (InBranch(i) /\ br.lineno # br.node.tests[i].start) =>
                  br.result = <<br.lineno, br.node.tests[i].last>>
        /\ InElse =>
              br.result = IF br.lineno < br.node.else_[1].start
                          THEN <<br.lineno, br.node.else_[1].start - 1>>
                          ELSE <<br.lineno, br.node.else_[1].last>>

\* Branches at lines 2, 4 and 6, the second one ending at line 5, and an
\* else clause from line 8 to line 9: line 9 was asked and (9, 9) answered.
C11_Witness ==
    /\ OnIf
    /\ br.node.line = 2
    /\ br.node.tests = <<[start |-> 3, last |-> 3], [start |-> 5, last |-> 5],
                         [start |-> 7, last |-> 7]>>
    /\ br.node.else_ = <<[start |-> 9, last |-> 9]>>
    /\ br.lineno = 9
    /\ br.result = <<9, 9>>

\* The lines on which a branch after the first, a handler clause or the else
\* clause starts.
ClauseStarts ==
    {BranchHead(i) : i \in 2..Len(br.node.tests)}
    \cup {br.node.handlers[i].head : i \in 1..Len(br.node.handlers)}
    \cup (IF br.node.else_ # <<>> THEN {ElseHead} ELSE {})

\* C12: on a conditional chain or a try/except statement, block_range(L) of
\* a line L inside it ends within the sub-block that holds L: no branch
\* after the first, no handler clause and no else clause starts after L and
\* up to the end returned.
C12_SpanWithinSubBlock ==
    br.called =>
        \A s \in ClauseStarts : ~(br.lineno < s /\ s <= br.result[2])

====
